---- MODULE Spec2Model ----
(***************************************************************************)
(* The tab-state cache of src/unnamed/part_000: an in-memory Map from tab  *)
(* id to a nested record, its path-based get/set, the navigation handler,  *)
(* the one-shot startup reconciliation against a snapshot of the store and *)
(* of the live tabs, and the tab lifecycle hooks.                          *)
(*                                                                         *)
(* JavaScript values are encoded uniformly.  A value is a record           *)
(*   [t, n, s, props]                                                      *)
(* where t is the typeof-like tag, n the number (or 0/1 for a boolean), s  *)
(* the string, and props the own properties of an object, flattened: a     *)
(* function from non-empty key paths to nodes [t, n, s].  Keys are the     *)
(* ordinary (own, non-inherited) property names of Keys.                   *)
(***************************************************************************)
EXTENDS Integers, Sequences, FiniteSets, TLC

\* ---------------------------------------------------------------- bounds
MaxSteps == 2

\* ---------------------------------------------------------------- values
Node(t, n, s) == [t |-> t, n |-> n, s |-> s]
NoProps == <<>>
Val(t, n, s, props) == [t |-> t, n |-> n, s |-> s, props |-> props]

Undefined == Val("undefined", 0, "", NoProps)
False == Val("boolean", 0, "", NoProps)
NumV(n) == Val("number", n, "", NoProps)
StrV(s) == Val("string", 0, s, NoProps)
EmptyObj == Val("object", 0, "", NoProps)
\* the outcome of an expression that raises a TypeError
TypeError == Val("TypeError", 0, "", NoProps)

NodeOf(v) == Node(v.t, v.n, v.s)
IsObj(v) == v.t = "object"

\* ToBoolean: what `res &&`, `obj &&`, `!obj`, `x || y` test
Truthy(v) ==
  CASE v.t = "object" -> TRUE
    [] v.t = "number" -> v.n # 0
    [] v.t = "boolean" -> v.n = 1
    [] v.t = "string" -> v.s # ""
    [] OTHER -> FALSE

\* the value stored in object v at the non-empty path p (p \in DOMAIN v.props)
Sub(v, p) ==
  LET nd == v.props[p]
      below == {r \in DOMAIN v.props : Len(r) > Len(p) /\ SubSeq(r, 1, Len(p)) = p}
      rel == {SubSeq(r, Len(p) + 1, Len(r)) : r \in below}
  IN Val(nd.t, nd.n, nd.s, [q \in rel |-> v.props[p \o q]])

\* v[k]: an own property of an object; an ordinary key of a primitive is
\* undefined; reading a property of undefined raises a TypeError
GetProp(v, k) ==
  IF v.t \in {"undefined", "TypeError"} THEN TypeError
  ELSE IF IsObj(v) /\ <<k>> \in DOMAIN v.props THEN Sub(v, <<k>>)
  ELSE Undefined

\* delete v[k] on an object
DelProp(v, k) ==
  [v EXCEPT !.props = [p \in {q \in DOMAIN v.props : q[1] # k} |-> v.props[p]]]

\* v[k] = w on an object
PutProp(v, k, w) ==
  LET keep == {q \in DOMAIN v.props : q[1] # k}
      sub == {<<k>> \o q : q \in DOMAIN w.props}
  IN [v EXCEPT !.props =
        [p \in keep \cup {<<k>>} \cup sub |->
           IF p \in keep THEN v.props[p]
           ELSE IF p = <<k>> THEN NodeOf(w)
           ELSE w.props[Tail(p)]]]

\* ------------------------------------------------------------ store keys
\* A key of the persistent store / of the dbData Map: a number (a tab id) or a
\* string, kept as its sequence of characters so that `+key` can be computed.
NumKey(n) == [isNum |-> TRUE, n |-> n, s |-> <<>>]
StrKey(chars) == [isNum |-> FALSE, n |-> 0, s |-> chars]

\* A character is a one-character string; a character that has no ASCII
\* spelling in a string is written by its code point, as in "U+00A0".
\* WhiteSpace and LineTerminator, which StringToNumber strips at both ends:
\* TAB, LF, VT, FF, CR, SP, NBSP, the Unicode space separators, LS, PS, BOM
WhiteSpace ==
  {"\t", "\n", "U+000B", "\f", "\r", " ", "U+00A0", "U+1680",
   "U+2000", "U+2001", "U+2002", "U+2003", "U+2004", "U+2005", "U+2006", "U+2007",
   "U+2008", "U+2009", "U+200A", "U+2028", "U+2029", "U+202F", "U+205F", "U+3000",
   "U+FEFF"}
DigitChars == {"0", "1", "2", "3", "4", "5", "6", "7", "8", "9"}
DigitVal(c) ==
  CASE c = "0" -> 0 [] c = "1" -> 1 [] c = "2" -> 2 [] c = "3" -> 3 [] c = "4" -> 4
    [] c = "5" -> 5 [] c = "6" -> 6 [] c = "7" -> 7 [] c = "8" -> 8 [] c = "9" -> 9
HexChars ==
  DigitChars \cup {"a", "b", "c", "d", "e", "f", "A", "B", "C", "D", "E", "F"}
HexVal(c) ==
  CASE c \in DigitChars -> DigitVal(c)
    [] c \in {"a", "A"} -> 10 [] c \in {"b", "B"} -> 11 [] c \in {"c", "C"} -> 12
    [] c \in {"d", "D"} -> 13 [] c \in {"e", "E"} -> 14 [] c \in {"f", "F"} -> 15

\* the least and the greatest element of a non-empty set of integers
Least(S) == CHOOSE i \in S : \A j \in S : i <= j
Greatest(S) == CHOOSE i \in S : \A j \in S : i >= j

\* the string without the white space at its start / at its end
TrimLeft(cs) ==
  LET keep == {i \in 1..Len(cs) : cs[i] \notin WhiteSpace}
  IN IF keep = {} THEN <<>> ELSE SubSeq(cs, Least(keep), Len(cs))
TrimRight(cs) ==
  LET keep == {i \in 1..Len(cs) : cs[i] \notin WhiteSpace}
  IN IF keep = {} THEN <<>> ELSE SubSeq(cs, 1, Greatest(keep))

\* the value of a string of decimal digits
RECURSIVE DigitsValue(_)
DigitsValue(cs) ==
  IF cs = <<>> THEN 0 ELSE 10 * DigitsValue(SubSeq(cs, 1, Len(cs) - 1)) + DigitVal(cs[Len(cs)])

\* A number, as far as `>= 0` can tell numbers apart: NaN, an infinity, a zero
\* or another finite number, with its sign (-0 is the zero with neg).
NaN == [kind |-> "NaN", neg |-> FALSE]
Infinity(neg) == [kind |-> "Infinity", neg |-> neg]
Zero(neg) == [kind |-> "zero", neg |-> neg]
Finite(neg) == [kind |-> "finite", neg |-> neg]

\* The range of a double. A literal rounds to zero when its value is at most
\* 2^-1075 = 0.UnderflowDigits * 10^UnderflowPoint (half of the least positive
\* double; the tie goes to the even neighbour, zero) and to an infinity when its
\* value is at least 2^1024 - 2^970 = 0.OverflowDigits * 10^OverflowPoint (the
\* greatest double plus half a unit; the tie goes to the even neighbour, 2^1024).
UnderflowPoint == -323
UnderflowDigits ==
  <<
   2, 4, 7, 0, 3, 2, 8, 2, 2, 9, 2, 0, 6, 2, 3, 2, 7, 2, 0, 8, 8, 2, 8, 4, 3, 9, 6, 4,
   3, 4, 1, 1, 0, 6, 8, 6, 1, 8, 2, 5, 2, 9, 9, 0, 1, 3, 0, 7, 1, 6, 2, 3, 8, 2, 2, 1,
   2, 7, 9, 2, 8, 4, 1, 2, 5, 0, 3, 3, 7, 7, 5, 3, 6, 3, 5, 1, 0, 4, 3, 7, 5, 9, 3, 2,
   6, 4, 9, 9, 1, 8, 1, 8, 0, 8, 1, 7, 9, 9, 6, 1, 8, 9, 8, 9, 8, 2, 8, 2, 3, 4, 7, 7,
   2, 2, 8, 5, 8, 8, 6, 5, 4, 6, 3, 3, 2, 8, 3, 5, 5, 1, 7, 7, 9, 6, 9, 8, 9, 8, 1, 9,
   9, 3, 8, 7, 3, 9, 8, 0, 0, 5, 3, 9, 0, 9, 3, 9, 0, 6, 3, 1, 5, 0, 3, 5, 6, 5, 9, 5,
   1, 5, 5, 7, 0, 2, 2, 6, 3, 9, 2, 2, 9, 0, 8, 5, 8, 3, 9, 2, 4, 4, 9, 1, 0, 5, 1, 8,
   4, 4, 3, 5, 9, 3, 1, 8, 0, 2, 8, 4, 9, 9, 3, 6, 5, 3, 6, 1, 5, 2, 5, 0, 0, 3, 1, 9,
   3, 7, 0, 4, 5, 7, 6, 7, 8, 2, 4, 9, 2, 1, 9, 3, 6, 5, 6, 2, 3, 6, 6, 9, 8, 6, 3, 6,
   5, 8, 4, 8, 0, 7, 5, 7, 0, 0, 1, 5, 8, 5, 7, 6, 9, 2, 6, 9, 9, 0, 3, 7, 0, 6, 3, 1,
   1, 9, 2, 8, 2, 7, 9, 5, 5, 8, 5, 5, 1, 3, 3, 2, 9, 2, 7, 8, 3, 4, 3, 3, 8, 4, 0, 9,
   3, 5, 1, 9, 7, 8, 0, 1, 5, 5, 3, 1, 2, 4, 6, 5, 9, 7, 2, 6, 3, 5, 7, 9, 5, 7, 4, 6,
   2, 2, 7, 6, 6, 4, 6, 5, 2, 7, 2, 8, 2, 7, 2, 2, 0, 0, 5, 6, 3, 7, 4, 0, 0, 6, 4, 8,
   5, 4, 9, 9, 9, 7, 7, 0, 9, 6, 5, 9, 9, 4, 7, 0, 4, 5, 4, 0, 2, 0, 8, 2, 8, 1, 6, 6,
   2, 2, 6, 2, 3, 7, 8, 5, 7, 3, 9, 3, 4, 5, 0, 7, 3, 6, 3, 3, 9, 0, 0, 7, 9, 6, 7, 7,
   6, 1, 9, 3, 0, 5, 7, 7, 5, 0, 6, 7, 4, 0, 1, 7, 6, 3, 2, 4, 6, 7, 3, 6, 0, 0, 9, 6,
   8, 9, 5, 1, 3, 4, 0, 5, 3, 5, 5, 3, 7, 4, 5, 8, 5, 1, 6, 6, 6, 1, 1, 3, 4, 2, 2, 3,
   7, 6, 6, 6, 7, 8, 6, 0, 4, 1, 6, 2, 1, 5, 9, 6, 8, 0, 4, 6, 1, 9, 1, 4, 4, 6, 7, 2,
   9, 1, 8, 4, 0, 3, 0, 0, 5, 3, 0, 0, 5, 7, 5, 3, 0, 8, 4, 9, 0, 4, 8, 7, 6, 5, 3, 9,
   1, 7, 1, 1, 3, 8, 6, 5, 9, 1, 6, 4, 6, 2, 3, 9, 5, 2, 4, 9, 1, 2, 6, 2, 3, 6, 5, 3,
   8, 8, 1, 8, 7, 9, 6, 3, 6, 2, 3, 9, 3, 7, 3, 2, 8, 0, 4, 2, 3, 8, 9, 1, 0, 1, 8, 6,
   7, 2, 3, 4, 8, 4, 9, 7, 6, 6, 8, 2, 3, 5, 0, 8, 9, 8, 6, 3, 3, 8, 8, 5, 8, 7, 9, 2,
   5, 6, 2, 8, 3, 0, 2, 7, 5, 5, 9, 9, 5, 6, 5, 7, 5, 2, 4, 4, 5, 5, 5, 0, 7, 2, 5, 5,
   1, 8, 9, 3, 1, 3, 6, 9, 0, 8, 3, 6, 2, 5, 4, 7, 7, 9, 1, 8, 6, 9, 4, 8, 6, 6, 7, 9,
   9, 4, 9, 6, 8, 3, 2, 4, 0, 4, 9, 7, 0, 5, 8, 2, 1, 0, 2, 8, 5, 1, 3, 1, 8, 5, 4, 5,
   1, 3, 9, 6, 2, 1, 3, 8, 3, 7, 7, 2, 2, 8, 2, 6, 1, 4, 5, 4, 3, 7, 6, 9, 3, 4, 1, 2,
   5, 3, 2, 0, 9, 8, 5, 9, 1, 3, 2, 7, 6, 6, 7, 2, 3, 6, 3, 2, 8, 1, 2, 5 >>
OverflowPoint == 309
OverflowDigits ==
  <<
   1, 7, 9, 7, 6, 9, 3, 1, 3, 4, 8, 6, 2, 3, 1, 5, 8, 0, 7, 9, 3, 7, 2, 8, 9, 7, 1, 4,
   0, 5, 3, 0, 3, 4, 1, 5, 0, 7, 9, 9, 3, 4, 1, 3, 2, 7, 1, 0, 0, 3, 7, 8, 2, 6, 9, 3,
   6, 1, 7, 3, 7, 7, 8, 9, 8, 0, 4, 4, 4, 9, 6, 8, 2, 9, 2, 7, 6, 4, 7, 5, 0, 9, 4, 6,
   6, 4, 9, 0, 1, 7, 9, 7, 7, 5, 8, 7, 2, 0, 7, 0, 9, 6, 3, 3, 0, 2, 8, 6, 4, 1, 6, 6,
   9, 2, 8, 8, 7, 9, 1, 0, 9, 4, 6, 5, 5, 5, 5, 4, 7, 8, 5, 1, 9, 4, 0, 4, 0, 2, 6, 3,
   0, 6, 5, 7, 4, 8, 8, 6, 7, 1, 5, 0, 5, 8, 2, 0, 6, 8, 1, 9, 0, 8, 9, 0, 2, 0, 0, 0,
   7, 0, 8, 3, 8, 3, 6, 7, 6, 2, 7, 3, 8, 5, 4, 8, 4, 5, 8, 1, 7, 7, 1, 1, 5, 3, 1, 7,
   6, 4, 4, 7, 5, 7, 3, 0, 2, 7, 0, 0, 6, 9, 8, 5, 5, 5, 7, 1, 3, 6, 6, 9, 5, 9, 6, 2,
   2, 8, 4, 2, 9, 1, 4, 8, 1, 9, 8, 6, 0, 8, 3, 4, 9, 3, 6, 4, 7, 5, 2, 9, 2, 7, 1, 9,
   0, 7, 4, 1, 6, 8, 4, 4, 4, 3, 6, 5, 5, 1, 0, 7, 0, 4, 3, 4, 2, 7, 1, 1, 5, 5, 9, 6,
   9, 9, 5, 0, 8, 0, 9, 3, 0, 4, 2, 8, 8, 0, 1, 7, 7, 9, 0, 4, 1, 7, 4, 4, 9, 7, 7, 9,
   2 >>

\* 0.a <= 0.b for sequences a, b of decimal digits
FractionLE(a, b) ==
  LET at(x, i) == IF i <= Len(x) THEN x[i] ELSE 0
      n == IF Len(a) >= Len(b) THEN Len(a) ELSE Len(b)
      diff == {i \in 1..n : at(a, i) # at(b, i)}
  IN diff = {} \/ at(a, Least(diff)) < at(b, Least(diff))

\* The double that the decimal 0.digs * 10^point rounds to, digs being a
\* sequence of digit values
RoundToDouble(neg, digs, point) ==
  LET nz == {i \in 1..Len(digs) : digs[i] # 0}
      sig == SubSeq(digs, Least(nz), Len(digs))
      pt == point - (Least(nz) - 1)
  IN IF nz = {} THEN Zero(neg)
     ELSE IF pt < UnderflowPoint \/ (pt = UnderflowPoint /\ FractionLE(sig, UnderflowDigits))
          THEN Zero(neg)
     ELSE IF pt > OverflowPoint \/ (pt = OverflowPoint /\ FractionLE(OverflowDigits, sig))
          THEN Infinity(neg)
     ELSE Finite(neg)

IsDigits(cs) == cs # <<>> /\ \A i \in 1..Len(cs) : cs[i] \in DigitChars

\* an exponent of more digits than ExponentDigits is not computed: next to a
\* mantissa of fewer than HugeExponent - 400 characters it decides the result
ExponentDigits == 9
HugeExponent == 1000000000

\* StrUnsignedDecimalLiteral: Infinity, or digits with at most one "." and at
\* least one digit, then an optional exponent part e|E [+|-] digits
UnsignedDecimal(neg, body) ==
  LET es == {i \in 1..Len(body) : body[i] \in {"e", "E"}}
      e == IF es = {} THEN Len(body) + 1 ELSE Least(es)
      m == SubSeq(body, 1, e - 1)
      x == SubSeq(body, e + 1, Len(body))
      xsigned == x # <<>> /\ Head(x) \in {"+", "-"}
      xneg == xsigned /\ Head(x) = "-"
      xdigits == IF xsigned THEN Tail(x) ELSE x
      xnz == {i \in 1..Len(xdigits) : xdigits[i] # "0"}
      xsig == IF xnz = {} THEN <<>> ELSE SubSeq(xdigits, Least(xnz), Len(xdigits))
      dots == {i \in 1..Len(m) : m[i] = "."}
      digs == SelectSeq(m, LAMBDA c : c \in DigitChars)
      whole == IF dots = {} THEN Len(m) ELSE Least(dots) - 1
      vals == [i \in 1..Len(digs) |-> DigitVal(digs[i])]
  IN IF body = <<"I", "n", "f", "i", "n", "i", "t", "y">> THEN Infinity(neg)
     ELSE IF ~ /\ \A i \in 1..Len(m) : m[i] \in DigitChars \cup {"."}
               /\ Cardinality(dots) <= 1
               /\ digs # <<>>
               /\ es # {} => IsDigits(xdigits)
          THEN NaN
     ELSE IF Len(xsig) > ExponentDigits /\ Len(m) < HugeExponent - 400
          THEN IF \A i \in 1..Len(vals) : vals[i] = 0 THEN Zero(neg)
               ELSE IF xneg THEN Zero(neg)
               ELSE Infinity(neg)
     ELSE RoundToDouble(neg, vals,
                        whole + (IF xneg THEN -DigitsValue(xsig) ELSE DigitsValue(xsig)))

\* NonDecimalIntegerLiteral: 0x, 0o or 0b in either case, then digits of the
\* base; the number of bits of a digit, 0 when the string is no such literal
NonDecimalBits(t) ==
  IF Len(t) < 3 \/ t[1] # "0" THEN 0
  ELSE LET bits == CASE t[2] \in {"x", "X"} -> 4
                     [] t[2] \in {"o", "O"} -> 3
                     [] t[2] \in {"b", "B"} -> 1
                     [] OTHER -> 0
           base == CASE bits = 4 -> 16 [] bits = 3 -> 8 [] bits = 1 -> 2 [] OTHER -> 0
       IN IF \A i \in 3..Len(t) : t[i] \in HexChars /\ HexVal(t[i]) < base
          THEN bits ELSE 0

\* The double that a non-decimal integer literal of k bits a digit rounds to:
\* an infinity when it is at least 2^1024 - 2^970, which is 54 one bits and
\* 970 zero bits
NonDecimal(ds, k) ==
  LET pow2(p) == CASE p = 0 -> 1 [] p = 1 -> 2 [] p = 2 -> 4 [] p = 3 -> 8
      bit(i) == (HexVal(ds[((i - 1) \div k) + 1]) \div pow2(k - 1 - ((i - 1) % k))) % 2
      ones == {i \in 1..(k * Len(ds)) : bit(i) = 1}
      len == k * Len(ds) - Least(ones) + 1
  IN IF ones = {} THEN Zero(FALSE)
     ELSE IF len > 1024 \/ (len = 1024 /\ \A j \in 0..53 : bit(Least(ones) + j) = 1)
          THEN Infinity(FALSE)
     ELSE Finite(FALSE)

\* StringToNumber: the empty or all-white-space string is 0; otherwise the
\* trimmed string is a non-decimal integer literal without a sign, or a decimal
\* literal with an optional sign, or the result is NaN
StringToNumber(chars) ==
  LET t == TrimRight(TrimLeft(chars))
      signed == t # <<>> /\ Head(t) \in {"+", "-"}
  IN IF t = <<>> THEN Zero(FALSE)
     ELSE IF NonDecimalBits(t) # 0
          THEN NonDecimal(SubSeq(t, 3, Len(t)), NonDecimalBits(t))
     ELSE UnsignedDecimal(signed /\ Head(t) = "-", IF signed THEN Tail(t) ELSE t)

\* unary plus on a Map key
ToNumber(key) ==
  IF key.isNum THEN IF key.n = 0 THEN Zero(FALSE) ELSE Finite(key.n < 0)
  ELSE StringToNumber(key.s)

\* x >= 0 for a number x (NaN compares false, -0 >= 0 is true)
GeZero(x) == x.kind # "NaN" /\ (~x.neg \/ x.kind = "zero")

\* ------------------------------------------------------------ the cache
\* cache: a function from the tab ids present in the Map to their records
CacheGet(c, tabId) == IF tabId \in DOMAIN c THEN c[tabId] ELSE Undefined
CachePut(c, tabId, v) == [x \in DOMAIN c \cup {tabId} |-> IF x = tabId THEN v ELSE c[x]]
CacheDelete(c, tabId) == [x \in DOMAIN c \ {tabId} |-> c[x]]
\* cache.has(key) for a dbData key: Map keys compare by SameValueZero, so a
\* string key never equals a numeric tab id
CacheHas(c, key) == key.isNum /\ key.n \in DOMAIN c

\* get without the `res &&` guard of its loop
RECURSIVE getLoopUnguarded(_, _, _)
getLoopUnguarded(res, keyPath, i) ==
  IF i <= Len(keyPath)
  THEN getLoopUnguarded(GetProp(res, keyPath[i]), keyPath, i + 1)
  ELSE res

RECURSIVE getLoop(_, _, _)
getLoop(res, keyPath, i) ==
  IF Truthy(res) /\ i <= Len(keyPath)
  THEN getLoop(GetProp(res, keyPath[i]), keyPath, i + 1)
  ELSE res

get(c, tabId, keyPath) == getLoop(CacheGet(c, tabId), keyPath, 1)

\* getStyleIds without its `|| false`
getStyleIdsNoDefault(c, id) ==
  LET rec == CacheGet(c, id)
  IN IF rec.t = "undefined" THEN Undefined ELSE GetProp(rec, "styleIds")

getStyleIds(c, id) ==
  LET rec == CacheGet(c, id)
      ids == IF rec.t = "undefined" THEN Undefined ELSE GetProp(rec, "styleIds")
  IN IF Truthy(ids) THEN ids ELSE False

\* set creating containers also when it deletes (`!del &&` left out)
setCreatesOnDelete(child, del) == ~Truthy(child)

\* whether the loop of set creates a container for a key whose value is `child`
setCreates(child, del) == ~Truthy(child) /\ ~del

\* set testing the value for truth instead of comparing it with undefined
setFinalTruthTest(obj, lastKey, value, del) ==
  IF Truthy(value)
  THEN IF IsObj(obj) THEN [threw |-> FALSE, val |-> PutProp(obj, lastKey, value)]
       ELSE [threw |-> TRUE, val |-> obj]
  ELSE IF Truthy(obj) /\ IsObj(obj) THEN [threw |-> FALSE, val |-> DelProp(obj, lastKey)]
       ELSE [threw |-> FALSE, val |-> obj]

\* the statement after the loop of set: assign or delete the last key of `obj`
setFinal(obj, lastKey, value, del) ==
  IF ~del
  THEN IF IsObj(obj) THEN [threw |-> FALSE, val |-> PutProp(obj, lastKey, value)]
       ELSE [threw |-> TRUE, val |-> obj]
  ELSE IF Truthy(obj) /\ IsObj(obj) THEN [threw |-> FALSE, val |-> DelProp(obj, lastKey)]
       ELSE [threw |-> FALSE, val |-> obj]

\* The body of set after obj0 is fixed: the loop over args (from index i) and the
\* final assignment or delete, as the new value of the object `obj` the loop is at.
\* threw: a TypeError (assignment to a property of a primitive in strict code).
RECURSIVE setWalk(_, _, _, _, _, _)
setWalk(obj, args, i, lastKey, value, del) ==
  IF Truthy(obj) /\ i <= Len(args)
  THEN LET key == args[i]
           child == GetProp(obj, key)
       IN IF Truthy(child)
          THEN LET r == setWalk(child, args, i + 1, lastKey, value, del)
               IN [threw |-> r.threw, val |-> PutProp(obj, key, r.val)]
          ELSE IF ~setCreates(child, del) THEN [threw |-> FALSE, val |-> obj]
          ELSE IF ~IsObj(obj) THEN [threw |-> TRUE, val |-> obj]
          ELSE LET r == setWalk(EmptyObj, args, i + 1, lastKey, value, del)
               IN [threw |-> r.threw, val |-> PutProp(obj, key, r.val)]
  ELSE setFinal(obj, lastKey, value, del)

\* ------------------------------------------------------------ the store
SetOp(key, v) == [op |-> "set", key |-> key, val |-> v]
RemoveOp(key) == [op |-> "remove", key |-> key, val |-> Undefined]
\* the content of the store once the operation o has been applied to it
ApplyOp(st, o) ==
  IF o.op = "set"
  THEN [k \in DOMAIN st \cup {o.key} |-> IF k = o.key THEN o.val ELSE st[k]]
  ELSE [k \in DOMAIN st \ {o.key} |-> st[k]]
RECURSIVE ApplyOps(_, _)
ApplyOps(st, os) == IF os = <<>> THEN st ELSE ApplyOps(ApplyOp(st, Head(os)), Tail(os))

\* set(tabId, ...keyPath, value): the new cache, the store operations issued and
\* whether the call threw
set(c, tabId, keyPath, value) ==
  LET del == value.t = "undefined"
      lastKey == IF keyPath = <<>> THEN "undefined" ELSE keyPath[Len(keyPath)]
      args == IF keyPath = <<>> THEN <<>> ELSE SubSeq(keyPath, 1, Len(keyPath) - 1)
      found == CacheGet(c, tabId)
  IN IF ~Truthy(found) /\ del
     THEN [cache |-> c, issued |-> <<>>, threw |-> FALSE]
     ELSE LET obj0 == IF Truthy(found) THEN found ELSE EmptyObj
              r == setWalk(obj0, args, 1, lastKey, value, del)
          IN [cache |-> CachePut(c, tabId, r.val),
              issued |-> IF r.threw THEN <<>> ELSE <<SetOp(NumKey(tabId), r.val)>>,
              threw |-> r.threw]

\* remove forgetting the store
removeCacheOnly(c, tabId) ==
  [cache |-> CacheDelete(c, tabId), issued |-> <<>>, threw |-> FALSE]

remove(c, tabId) ==
  [cache |-> CacheDelete(c, tabId), issued |-> <<RemoveOp(NumKey(tabId))>>, threw |-> FALSE]

\* the chrome.tabs.onRemoved listener: remove itself, called with the tab id
onRemoved(c, tabId) == remove(c, tabId)

\* the onReplaced listener removing the tab that was added
onReplacedRemovesAdded(c, added, removed) == remove(c, added)

\* the chrome.tabs.onReplaced listener
onReplaced(c, added, removed) == remove(c, removed)

\* ------------------------------------------------------------ inputs
TabIds == {1, 2}
\* the key paths given to set, and those given to get
KeyPaths == {<<"a">>, <<"a", "b">>, <<"styleIds">>}
GetPaths == KeyPaths \cup {<<>>}
Values == {Undefined, NumV(0), NumV(1), EmptyObj}
Urls == {"http://a", "http://b", "chrome://x"}
FrameIds == {0, 1}
Fns == {"f1", "f2"}
\* the listeners that raise an error when they are notified
ThrowingFns == {"f1"}

\* supported(url) of /js/urls
supported(url) == url \in {"http://a", "http://b"}

\* ------------------------------------------------------------ navigation
\* one call fn({tabId, url, oldUrl}): its arguments, whether fn threw, and what fn
\* finds while it runs: `seen` is get(tabId, 'url'), `written` the store
\* operations the handler has issued so far
invocation(fn, c, written, tabId, url, oldUrl) ==
  [fn |-> fn, tabId |-> tabId, url |-> url, oldUrl |-> oldUrl,
   seen |-> get(c, tabId, <<"url">>), written |-> written, threw |-> fn \in ThrowingFns]

\* the listener loop without try/catch: the first error ends it and propagates
notifyNoCatch(ls, c, written, tabId, url, oldUrl) ==
  LET throwers == {i \in 1..Len(ls) : ls[i] \in ThrowingFns}
      n == IF throwers = {} THEN Len(ls)
           ELSE CHOOSE i \in throwers : \A j \in throwers : i <= j
  IN [calls |-> [i \in 1..n |-> invocation(ls[i], c, written, tabId, url, oldUrl)],
      threw |-> throwers # {}]

\* the listener loop: one invocation per listener, in the order of the Set; an
\* error of a listener is caught and the loop goes on
notify(ls, c, written, tabId, url, oldUrl) ==
  [calls |-> [i \in 1..Len(ls) |-> invocation(ls[i], c, written, tabId, url, oldUrl)],
   threw |-> FALSE]

\* the handler treating every frame as the top frame
isSubFrameNever(frameId) == FALSE

\* `if (frameId) return`
isSubFrame(frameId) == frameId # 0

\* the handler notifying for every url
shouldNotifyAlways(url) == TRUE

\* `if (!supported(url)) return`
shouldNotify(url) == supported(url)

\* the handler calling the listeners before it updates the cache and the store
onUrlChangeNotifiesFirst(c, ls, tabId, frameId, url) ==
  IF isSubFrame(frameId) THEN [cache |-> c, issued |-> <<>>, calls |-> <<>>, threw |-> FALSE]
  ELSE LET found == CacheGet(c, tabId)
           oldUrl == IF Truthy(found) THEN GetProp(found, "url") ELSE Undefined
           obj == PutProp(IF Truthy(found) THEN found ELSE EmptyObj, "url", StrV(url))
           n == IF shouldNotify(url) THEN notify(ls, c, <<>>, tabId, url, oldUrl)
                ELSE [calls |-> <<>>, threw |-> FALSE]
       IN [cache |-> CachePut(c, tabId, obj),
           issued |-> <<SetOp(NumKey(tabId), obj)>>,
           calls |-> n.calls,
           threw |-> n.threw]

\* the onUrlChange callback
onUrlChange(c, ls, tabId, frameId, url) ==
  IF isSubFrame(frameId) THEN [cache |-> c, issued |-> <<>>, calls |-> <<>>, threw |-> FALSE]
  ELSE LET found == CacheGet(c, tabId)
           oldUrl == IF Truthy(found) THEN GetProp(found, "url") ELSE Undefined
           obj == PutProp(IF Truthy(found) THEN found ELSE EmptyObj, "url", StrV(url))
           c2 == CachePut(c, tabId, obj)
           written == <<SetOp(NumKey(tabId), obj)>>
           n == IF shouldNotify(url) THEN notify(ls, c2, written, tabId, url, oldUrl)
                ELSE [calls |-> <<>>, threw |-> FALSE]
       IN [cache |-> c2,
           issued |-> written,
           calls |-> n.calls,
           threw |-> n.threw]

\* onOff on an array instead of a Set: a listener added twice is there twice
onOffAppends(ls, fn, state) ==
  IF state THEN Append(ls, fn) ELSE SelectSeq(ls, LAMBDA f : f # fn)

\* onOff(fn, state) on the listener Set, kept in insertion order
onOff(ls, fn, state) ==
  IF state
  THEN IF \E i \in 1..Len(ls) : ls[i] = fn THEN ls ELSE Append(ls, fn)
  ELSE SelectSeq(ls, LAMBDA f : f # fn)

\* ------------------------------------------------------------ startup
\* dbData: the persisted Map as its entries <<[key, val], ...>> in iteration order
DbHas(db, key) == \E i \in 1..Len(db) : db[i].key = key
DbGet(db, key) ==
  IF DbHas(db, key) THEN db[CHOOSE i \in 1..Len(db) : db[i].key = key].val ELSE Undefined

\* the reconciler persisting every live tab, changed or not
tabDirtyAlways(found, url) == TRUE

\* the reconciler comparing no urls: only a missing record is dirty
tabDirtyOnlyNew(found, url) == ~Truthy(found)

\* whether the record found for a live tab is created or gets a new url
tabDirty(found, url) ==
  IF ~Truthy(found) THEN TRUE ELSE GetProp(found, "url") # StrV(url)
\* the reconciler keeping the persisted url of a record it reuses
tabDataKeepsUrl(found, url) ==
  IF Truthy(found) THEN found ELSE PutProp(EmptyObj, "url", StrV(url))

\* the reconciler without `data = {}`: it inserts what dbData.get returned
tabDataNoDefault(found, url) ==
  IF ~Truthy(found) THEN found
  ELSE IF GetProp(found, "url") # StrV(url) THEN PutProp(found, "url", StrV(url))
  ELSE found

\* the reconciler starting a fresh record when the url has changed
tabDataFresh(found, url) ==
  IF ~Truthy(found) \/ GetProp(found, "url") # StrV(url)
  THEN PutProp(EmptyObj, "url", StrV(url))
  ELSE found

\* the record of a live tab after the update
tabData(found, url) ==
  IF tabDirty(found, url)
  THEN PutProp(IF Truthy(found) THEN found ELSE EmptyObj, "url", StrV(url))
  ELSE found

\* the loop over the live tabs, from index i; r = [cache, issued]
RECURSIVE liveTabPass(_, _, _, _)
liveTabPass(r, db, tabList, i) ==
  IF i > Len(tabList) THEN r
  ELSE LET id == tabList[i].id
           url == tabList[i].url
           found == DbGet(db, NumKey(id))
           dirty == tabDirty(found, url)
           data == tabData(found, url)
       IN IF supported(url)
          THEN liveTabPass(
                 [cache |-> CachePut(r.cache, id, data),
                  issued |-> IF dirty THEN Append(r.issued, SetOp(NumKey(id), data))
                             ELSE r.issued],
                 db, tabList, i + 1)
          ELSE liveTabPass(r, db, tabList, i + 1)

\* the loop over dbData.keys(), from index i
RECURSIVE orphanSweep(_, _, _)
orphanSweep(r, db, i) ==
  IF i > Len(db) THEN r
  ELSE LET key == db[i].key
       IN IF GeZero(ToNumber(key)) /\ ~CacheHas(r.cache, key)
          THEN orphanSweep([r EXCEPT !.issued = Append(@, RemoveOp(key))], db, i + 1)
          ELSE orphanSweep(r, db, i + 1)

\* the stateDb.ready.then callback
reconcile(c, db, tabList) ==
  orphanSweep(liveTabPass([cache |-> c, issued |-> <<>>], db, tabList, 1), db, 1)

\* ------------------------------------------------------------ snapshots
Rec1(k1, v1) == PutProp(EmptyObj, k1, v1)
Rec2(k1, v1, k2, v2) == PutProp(Rec1(k1, v1), k2, v2)
Entry(key, v) == [key |-> key, val |-> v]
Tab(id, url) == [id |-> id, url |-> url]

\* the records a previous run of the program has persisted under a tab id
RecA == Rec1("url", StrV("http://a"))
RecB == Rec2("url", StrV("http://b"), "a", Rec1("b", NumV(1)))
\* keys of other users of the same store: 'cfg', '', '1.5', a TAB, '1e3',
\* '0x10', 'Infinity', '-1' and '-1e-400'
ForeignKeys ==
  <<StrKey(<<"c", "f", "g">>), StrKey(<<>>), StrKey(<<"1", ".", "5">>),
    StrKey(<<"\t">>), StrKey(<<"1", "e", "3">>), StrKey(<<"0", "x", "1", "0">>),
    StrKey(<<"I", "n", "f", "i", "n", "i", "t", "y">>), StrKey(<<"-", "1">>),
    StrKey(<<"-", "1", "e", "-", "4", "0", "0">>)>>

\* what stateDb.ready resolves to: the persisted entries and the live tabs
DbSnapshots ==
  {<<>>,
   <<Entry(NumKey(1), RecA)>>,
   <<Entry(NumKey(1), RecB), Entry(NumKey(2), RecA)>>
     \o [i \in 1..Len(ForeignKeys) |-> Entry(ForeignKeys[i], EmptyObj)]}
TabSnapshots ==
  {<<>>,
   <<Tab(1, "http://a")>>,
   <<Tab(1, "http://a"), Tab(2, "chrome://x")>>,
   <<Tab(1, "http://a"), Tab(2, "http://b")>>}

\* ------------------------------------------------------------ state
VARIABLES
  cache,      \* the Map tabId -> record
  listeners,  \* the listener Set, in insertion order
  store,      \* the store's content once every issued operation is applied
  issued,     \* the store operations issued by the last handler, in issue order
  calls,      \* the listener invocations made by the last handler
  bgReady,    \* whether bgReady has resolved and onUrlChange is subscribed
  ready,      \* stateDb.ready: "absent", "pending" or "done"
  dbData,     \* the persisted entries stateDb.ready resolves to
  tabs,       \* the live tabs stateDb.ready resolves to
  mv3,        \* process.env.MV3
  last,       \* the last handler run: its name, arguments, result, and the state before
  steps       \* handler invocations so far

vars == <<cache, listeners, store, issued, calls, bgReady, ready, dbData, tabs, mv3, last, steps>>

NoCall == [op |-> "none", tabId |-> 0, frameId |-> 0, url |-> "", keyPath |-> <<>>,
           value |-> Undefined, fn |-> "", res |-> Undefined, threw |-> FALSE,
           cache |-> <<>>, store |-> <<>>, listeners |-> <<>>]

StoreOf(db) == [k \in {db[i].key : i \in 1..Len(db)} |-> DbGet(db, k)]

Init ==
  /\ cache = <<>>
  /\ listeners = <<>>
  /\ issued = <<>>
  /\ calls = <<>>
  /\ bgReady = FALSE
  /\ mv3 \in BOOLEAN
  /\ \/ ready = "absent" /\ dbData = <<>> /\ tabs = <<>>
     \/ ready = "pending" /\ dbData \in DbSnapshots /\ tabs \in TabSnapshots
  /\ store = StoreOf(dbData)
  /\ last = NoCall
  /\ steps = 0

Before == [NoCall EXCEPT !.cache = cache, !.store = store, !.listeners = listeners]

Env == UNCHANGED <<bgReady, ready, dbData, tabs, mv3>>

\* a handler that changes the cache and issues store operations
Effect(r) ==
  /\ cache' = r.cache
  /\ issued' = r.issued
  /\ store' = ApplyOps(store, r.issued)
  /\ steps' = steps + 1

Set(tabId, keyPath, value) ==
  /\ steps < MaxSteps
  /\ LET r == set(cache, tabId, keyPath, value)
     IN /\ Effect(r)
        /\ last' = [Before EXCEPT !.op = "set", !.tabId = tabId, !.keyPath = keyPath,
                                  !.value = value, !.threw = r.threw]
  /\ calls' = <<>>
  /\ UNCHANGED listeners
  /\ Env

Remove(tabId) ==
  /\ steps < MaxSteps
  /\ Effect(remove(cache, tabId))
  /\ last' = [Before EXCEPT !.op = "remove", !.tabId = tabId]
  /\ calls' = <<>>
  /\ UNCHANGED listeners
  /\ Env

\* chrome.tabs.onRemoved
TabRemoved(tabId) ==
  /\ ~mv3
  /\ steps < MaxSteps
  /\ Effect(onRemoved(cache, tabId))
  /\ last' = [Before EXCEPT !.op = "onRemoved", !.tabId = tabId]
  /\ calls' = <<>>
  /\ UNCHANGED listeners
  /\ Env

\* chrome.tabs.onReplaced
TabReplaced(added, removed) ==
  /\ ~mv3
  /\ steps < MaxSteps
  /\ Effect(onReplaced(cache, added, removed))
  /\ last' = [Before EXCEPT !.op = "onReplaced", !.tabId = removed, !.value = NumV(added)]
  /\ calls' = <<>>
  /\ UNCHANGED listeners
  /\ Env

Get(tabId, keyPath) ==
  /\ steps < MaxSteps
  /\ last' = [Before EXCEPT !.op = "get", !.tabId = tabId, !.keyPath = keyPath,
                            !.res = get(cache, tabId, keyPath),
                            !.threw = get(cache, tabId, keyPath) = TypeError]
  /\ issued' = <<>>
  /\ calls' = <<>>
  /\ steps' = steps + 1
  /\ UNCHANGED <<cache, listeners, store>>
  /\ Env

GetStyleIds(id) ==
  /\ steps < MaxSteps
  /\ last' = [Before EXCEPT !.op = "getStyleIds", !.tabId = id, !.res = getStyleIds(cache, id),
                      !.threw = getStyleIds(cache, id) = TypeError]
  /\ issued' = <<>>
  /\ calls' = <<>>
  /\ steps' = steps + 1
  /\ UNCHANGED <<cache, listeners, store>>
  /\ Env

OnOff(fn, state) ==
  /\ steps < MaxSteps
  /\ listeners' = onOff(listeners, fn, state)
  /\ last' = [Before EXCEPT !.op = "onOff", !.fn = fn, !.value = IF state THEN NumV(1) ELSE NumV(0)]
  /\ issued' = <<>>
  /\ calls' = <<>>
  /\ steps' = steps + 1
  /\ UNCHANGED <<cache, store>>
  /\ Env

\* onOff where the calls are not counted as steps: the listener Set is bounded
\* by Fns
OnOffAnyTime(fn, state) ==
  /\ listeners' = onOff(listeners, fn, state)
  /\ last' = [Before EXCEPT !.op = "onOff", !.fn = fn, !.value = IF state THEN NumV(1) ELSE NumV(0)]
  /\ issued' = <<>>
  /\ calls' = <<>>
  /\ UNCHANGED <<cache, store, steps>>
  /\ Env

\* the bgReady.then callback: subscribes the navigation handler
BgReady ==
  /\ ~bgReady
  /\ bgReady' = TRUE
  /\ last' = [Before EXCEPT !.op = "bgReady"]
  /\ issued' = <<>>
  /\ calls' = <<>>
  /\ UNCHANGED <<cache, listeners, store, steps, ready, dbData, tabs, mv3>>

Navigate(tabId, frameId, url) ==
  /\ bgReady
  /\ steps < MaxSteps
  /\ LET r == onUrlChange(cache, listeners, tabId, frameId, url)
     IN /\ Effect(r)
        /\ calls' = r.calls
        /\ last' = [Before EXCEPT !.op = "navigate", !.tabId = tabId, !.frameId = frameId,
                                  !.url = url, !.threw = r.threw]
  /\ UNCHANGED listeners
  /\ Env

Reconcile ==
  /\ ready = "pending"
  /\ steps < MaxSteps
  /\ Effect(reconcile(cache, dbData, tabs))
  /\ ready' = "done"
  /\ last' = [Before EXCEPT !.op = "reconcile"]
  /\ calls' = <<>>
  /\ UNCHANGED <<listeners, bgReady, dbData, tabs, mv3>>

Next ==
  \/ \E t \in TabIds, p \in KeyPaths, v \in Values : Set(t, p, v)
  \/ \E t \in TabIds : Remove(t)
  \/ \E t \in TabIds : TabRemoved(t)
  \/ \E t1, t2 \in TabIds : t1 # t2 /\ TabReplaced(t1, t2)
  \/ \E t \in TabIds, p \in GetPaths : Get(t, p)
  \/ \E t \in TabIds : GetStyleIds(t)
  \/ \E f \in Fns, b \in BOOLEAN : OnOff(f, b)
  \/ BgReady
  \/ \E t \in TabIds, f \in FrameIds, u \in Urls : Navigate(t, f, u)
  \/ Reconcile

Spec == Init /\ [][Next]_vars

\* The listeners and the handlers that change what a navigation event finds:
\* any number of onOff calls, then navigation events, the reconciliation and
\* removals within MaxSteps.
NextNav ==
  \/ \E f \in Fns, b \in BOOLEAN : OnOffAnyTime(f, b)
  \/ BgReady
  \/ \E t \in TabIds, f \in FrameIds, u \in Urls : Navigate(t, f, u)
  \/ \E t \in TabIds : Remove(t)
  \/ Reconcile

SpecNav == Init /\ [][NextNav]_vars

\* ================================================================ claims
Range(seq) == {seq[i] : i \in 1..Len(seq)}
HasPrefix(q, p) == Len(q) >= Len(p) /\ SubSeq(q, 1, Len(p)) = p
\* the record rec without the key at path p (and what is below it)
Without(rec, p) ==
  [rec EXCEPT !.props = [q \in {x \in DOMAIN rec.props : ~HasPrefix(x, p)} |-> rec.props[q]]]
\* a key that reads as a non-negative integer: a number >= 0 or a string of digits
IsTabIdKey(key) ==
  IF key.isNum THEN key.n >= 0
  ELSE key.s # <<>> /\ \A i \in 1..Len(key.s) : key.s[i] \in DigitChars
KeyId(key) == IF key.isNum THEN key.n ELSE DigitsValue(key.s)
\* the live tabs of the snapshot whose url is supported, and their urls
LiveIds == {tabs[i].id : i \in {j \in 1..Len(tabs) : supported(tabs[j].url)}}
LiveUrl(id) == tabs[CHOOSE i \in 1..Len(tabs) : tabs[i].id = id].url
\* the snapshot holds a record of tab id whose url is the live url
CleanInDb(id) ==
  /\ DbHas(dbData, NumKey(id))
  /\ GetProp(DbGet(dbData, NumKey(id)), "url") = StrV(LiveUrl(id))
\* the tab ids the snapshot is about
SnapshotIds ==
  {tabs[i].id : i \in 1..Len(tabs)}
  \cup {dbData[i].key.n : i \in {j \in 1..Len(dbData) : dbData[j].key.isNum}}
\* the write of the whole record of the last handler's tab
WholeRecordWrite == <<SetOp(NumKey(last.tabId), CacheGet(cache, last.tabId))>>
DeleteOnUntracked == last.value = Undefined /\ last.tabId \notin DOMAIN last.cache

\* cache and store after handler results r1 then r2 are applied from (c, st)
After(r, st) == [cache |-> r.cache, store |-> ApplyOps(st, r.issued)]
NavThenReconcile(t, u) ==
  LET a == After(onUrlChange(cache, listeners, t, 0, u), store)
  IN After(reconcile(a.cache, dbData, tabs), a.store)
ReconcileThenNav(t, u) ==
  LET a == After(reconcile(cache, dbData, tabs), store)
  IN After(onUrlChange(a.cache, listeners, t, 0, u), a.store)
RemoveThenReconcile(t) ==
  LET a == After(remove(cache, t), store)
  IN After(reconcile(a.cache, dbData, tabs), a.store)
ReconcileThenRemove(t) ==
  LET a == After(reconcile(cache, dbData, tabs), store)
  IN After(remove(a.cache, t), a.store)

\* C1: while the reconciliation is pending, a top-frame navigation event (once
\* the handler is subscribed) or a removal of a tab the snapshot is about leads
\* to the same cache and the same store content whether it is handled before or
\* after the reconciliation.
C1_InterleavingsConverge ==
  ready = "pending" =>
    \A t \in SnapshotIds :
      /\ bgReady => \A u \in Urls : NavThenReconcile(t, u) = ReconcileThenNav(t, u)
      /\ RemoveThenReconcile(t) = ReconcileThenRemove(t)

\* C2 as stated: every set other than a delete on an untracked tab, every
\* top-frame navigation event and every insertion by the reconciler issues a
\* store set of the tab's whole resulting record.
C2_EveryMutationWritten ==
  /\ (last.op = "set" /\ ~DeleteOnUntracked) => issued = WholeRecordWrite
  /\ (last.op = "navigate" /\ last.frameId = 0) => issued = WholeRecordWrite
  /\ last.op = "reconcile" =>
       \A t \in LiveIds : SetOp(NumKey(t), cache[t]) \in Range(issued)

\* C2 amended: a set that completes and a top-frame navigation event issue exactly
\* one store set of the tab's whole resulting record; the reconciler issues one
\* for an inserted tab exactly when it created the record or changed its url.
\* Nothing is issued by a delete on an untracked tab, by a set that raises a
\* TypeError (which leaves the cache as it was), by an event of another frame, or
\* for a persisted record whose url is already the live url.
C2_WriteThrough ==
  /\ last.op = "set" =>
       IF last.threw \/ DeleteOnUntracked
       THEN issued = <<>> /\ cache = last.cache
       ELSE issued = WholeRecordWrite
  /\ last.op = "navigate" =>
       IF last.frameId = 0 THEN issued = WholeRecordWrite
       ELSE issued = <<>> /\ cache = last.cache
  /\ last.op = "reconcile" =>
       \A t \in LiveIds :
         SetOp(NumKey(t), cache[t]) \in Range(issued) <=> ~CleanInDb(t)

C2_Witness ==
  /\ last.op = "reconcile"
  /\ \E t \in LiveIds : CleanInDb(t) /\ \A o \in Range(issued) : o.key # NumKey(t)

\* C3: every tab id in the cache has a store record equal to its cache record,
\* the store being taken with every issued operation applied.
C3_CacheStoreAgree ==
  \A t \in DOMAIN cache :
    NumKey(t) \in DOMAIN store /\ store[NumKey(t)] = cache[t]

\* C4: the reconciliation issues no store operation for a persisted key that is
\* not a non-negative integer, and such a key keeps its record in the store.
C4_ForeignKeysUntouched ==
  last.op = "reconcile" =>
    \A i \in 1..Len(dbData) :
      LET key == dbData[i].key
      IN ~IsTabIdKey(key) =>
           /\ \A o \in Range(issued) : o.key # key
           /\ key \in DOMAIN store
           /\ store[key] = last.store[key]

\* C5: after the reconciliation has run from an empty cache, the cache holds
\* exactly the live tabs with a supported url, each with its live url.
C5_CacheIsLiveSupported ==
  (last.op = "reconcile" /\ last.cache = <<>>) =>
    /\ DOMAIN cache = LiveIds
    /\ \A t \in LiveIds : GetProp(cache[t], "url") = StrV(LiveUrl(t))

C5_Witness ==
  /\ last.op = "reconcile"
  /\ last.cache = <<>>
  /\ \E i \in 1..Len(tabs) : ~supported(tabs[i].url)
  /\ \E t \in LiveIds :
       /\ DbHas(dbData, NumKey(t))
       /\ ~CleanInDb(t)
       /\ t \in DOMAIN cache

\* C6: the reconciliation issues a store delete for a persisted key exactly when
\* the key is a non-negative integer tab id that its live-tab pass did not
\* insert, and at most once per key.
C6_DeletesExactlyOrphans ==
  last.op = "reconcile" =>
    \A i \in 1..Len(dbData) :
      LET key == dbData[i].key
          n == Cardinality({j \in 1..Len(issued) : issued[j] = RemoveOp(key)})
      IN /\ n <= 1
         /\ n = 1 <=> (IsTabIdKey(key) /\ KeyId(key) \notin LiveIds)

\* some proper prefix of the key path p holds a truthy primitive in the record of t
PrimitiveOnPath(c, t, p) ==
  \E j \in 1..(Len(p) - 1) :
    LET v == get(c, t, SubSeq(p, 1, j)) IN Truthy(v) /\ ~IsObj(v)

\* C7 as stated: set(T, ...p, v) with v not undefined and p not empty completes
\* without error and get(T, ...p) then returns v.
C7_SetThenGet ==
  (last.op = "set" /\ last.value # Undefined /\ last.keyPath # <<>>) =>
    ~last.threw /\ get(cache, last.tabId, last.keyPath) = last.value

\* C7 amended: the round trip holds unless a proper prefix of p holds a truthy
\* primitive in T's record; then set raises a TypeError, the cache is unchanged
\* and no store operation is issued.
C7_RoundTrip ==
  (last.op = "set" /\ last.value # Undefined /\ last.keyPath # <<>>) =>
    IF PrimitiveOnPath(last.cache, last.tabId, last.keyPath)
    THEN last.threw /\ cache = last.cache /\ issued = <<>>
    ELSE ~last.threw /\ get(cache, last.tabId, last.keyPath) = last.value

C7_Witness ==
  /\ last.op = "set"
  /\ last.value # Undefined
  /\ Len(last.keyPath) = 2
  /\ last.tabId \notin DOMAIN last.cache
  /\ get(cache, last.tabId, last.keyPath) = last.value
  /\ IsObj(get(cache, last.tabId, <<last.keyPath[1]>>))

\* the styleIds field of the record of the last handler's tab, if any
StyleIdsField ==
  IF last.tabId \in DOMAIN cache THEN GetProp(cache[last.tabId], "styleIds") ELSE Undefined

\* C8 as stated: getStyleIds returns false exactly when the tab has no record,
\* and the styleIds field of the record of every tracked tab.
C8_FalseIffUntracked ==
  last.op = "getStyleIds" =>
    /\ ~last.threw
    /\ last.res = False <=> last.tabId \notin DOMAIN cache
    /\ last.tabId \in DOMAIN cache => last.res = StyleIdsField

\* C8 amended: getStyleIds returns false when the tab has no record and also
\* when the record of a tracked tab has no styleIds field or a falsy one; it
\* returns the styleIds field when that is truthy (an empty map included).
C8_FalseWhenUnpopulated ==
  last.op = "getStyleIds" =>
    /\ ~last.threw
    /\ last.res = IF Truthy(StyleIdsField) THEN StyleIdsField ELSE False

C8_Witness ==
  /\ last.op = "getStyleIds"
  /\ last.tabId \in DOMAIN cache
  /\ <<"styleIds">> \notin DOMAIN cache[last.tabId].props
  /\ last.res = False

\* the tab has no record, or the key path p is not in its record
Missing(c, t, p) == t \notin DOMAIN c \/ (p # <<>> /\ p \notin DOMAIN c[t].props)
\* the proper prefixes of p that hold a falsy value in rec
FalsyPrefixes(rec, p) ==
  {j \in 1..(Len(p) - 1) :
     SubSeq(p, 1, j) \in DOMAIN rec.props /\ ~Truthy(Sub(rec, SubSeq(p, 1, j)))}
ReadOnly ==
  /\ cache = last.cache
  /\ store = last.store
  /\ listeners = last.listeners
  /\ issued = <<>>

\* C9 as stated: get returns undefined whenever the tab or a key along the path
\* is missing, never throws and changes nothing.
C9_UndefinedWhenMissing ==
  last.op = "get" =>
    /\ ~last.threw
    /\ ReadOnly
    /\ Missing(cache, last.tabId, last.keyPath) => last.res = Undefined

\* C9 amended: when the tab or a key along the path is missing, get returns
\* undefined, except that it returns the value of an intermediate key that holds
\* a falsy value (0, '', false, null); it never throws and changes nothing.
C9_GetMissing ==
  last.op = "get" =>
    /\ ~last.threw
    /\ ReadOnly
    /\ Missing(cache, last.tabId, last.keyPath) =>
         LET rec == CacheGet(cache, last.tabId)
             js == IF IsObj(rec) THEN FalsyPrefixes(rec, last.keyPath) ELSE {}
         IN last.res = IF js = {} THEN Undefined
                       ELSE Sub(rec, SubSeq(last.keyPath, 1, CHOOSE j \in js : TRUE))

C9_Witness ==
  /\ last.op = "get"
  /\ last.tabId \in DOMAIN cache
  /\ Missing(cache, last.tabId, last.keyPath)
  /\ FalsyPrefixes(cache[last.tabId], last.keyPath) # {}
  /\ last.res = NumV(0)

\* C10: set(T, ...p, k, undefined) raises no error and adds no tab record, key or
\* container: the record of a tracked T becomes the old record without the key at
\* that path (the old record itself when the path is not in it), the other
\* records stay as they are, and an untracked T stays untracked.
C10_DeleteAtPath ==
  (last.op = "set" /\ last.value = Undefined /\ last.keyPath # <<>>) =>
    /\ ~last.threw
    /\ DOMAIN cache = DOMAIN last.cache
    /\ \A t \in DOMAIN cache :
         cache[t] = IF t = last.tabId THEN Without(last.cache[t], last.keyPath)
                    ELSE last.cache[t]

C10_Witness ==
  /\ last.op = "set"
  /\ last.value = Undefined
  /\ Len(last.keyPath) = 2
  /\ last.tabId \in DOMAIN last.cache
  /\ last.keyPath \in DOMAIN last.cache[last.tabId].props
  /\ last.keyPath \notin DOMAIN cache[last.tabId].props
  /\ <<last.keyPath[1]>> \in DOMAIN cache[last.tabId].props

\* the records of the cache and of the store other than tab id's are as before
OthersKept(id) ==
  /\ DOMAIN cache \ {id} = DOMAIN last.cache \ {id}
  /\ \A t \in DOMAIN cache \ {id} : cache[t] = last.cache[t]
  /\ DOMAIN store \ {NumKey(id)} = DOMAIN last.store \ {NumKey(id)}
  /\ \A k \in DOMAIN store \ {NumKey(id)} : store[k] = last.store[k]

\* C11: after remove(T) the cache has no entry for T, get(T) is undefined, one
\* store delete of T's record and nothing else has been issued, and the records
\* of the other tabs are as before, in the cache and in the store.
C11_RemoveFrame ==
  last.op = "remove" =>
    /\ last.tabId \notin DOMAIN cache
    /\ get(cache, last.tabId, <<>>) = Undefined
    /\ issued = <<RemoveOp(NumKey(last.tabId))>>
    /\ NumKey(last.tabId) \notin DOMAIN store
    /\ OthersKept(last.tabId)

C11_Witness ==
  /\ last.op = "remove"
  /\ last.tabId \in DOMAIN last.cache
  /\ NumKey(last.tabId) \in DOMAIN last.store
  /\ cache # <<>>

\* the url the cache holds for the tab of the last handler before it ran
UrlBefore ==
  IF last.tabId \in DOMAIN last.cache THEN GetProp(last.cache[last.tabId], "url")
  ELSE Undefined

\* C12: a navigation event of a frame other than the top frame changes nothing:
\* the cache and the store stay as they are, no store operation is issued and
\* no listener is called, whether the tab is tracked or not.
C12_SubFrameIgnored ==
  (last.op = "navigate" /\ last.frameId # 0) =>
    /\ cache = last.cache
    /\ store = last.store
    /\ listeners = last.listeners
    /\ issued = <<>>
    /\ calls = <<>>

C12_Witness ==
  /\ last.op = "navigate"
  /\ last.frameId # 0
  /\ supported(last.url)
  /\ listeners # <<>>
  /\ last.tabId \in DOMAIN cache
  /\ UrlBefore # StrV(last.url)

\* C13: a top-frame navigation event whose url is not supported sets the url of
\* the tab's record, creating the record of an untracked tab, issues the store
\* set of that record, and calls no listener.
C13_UnsupportedUrlStored ==
  (last.op = "navigate" /\ last.frameId = 0 /\ ~supported(last.url)) =>
    /\ last.tabId \in DOMAIN cache
    /\ get(cache, last.tabId, <<"url">>) = StrV(last.url)
    /\ last.tabId \notin DOMAIN last.cache =>
          cache[last.tabId] = PutProp(EmptyObj, "url", StrV(last.url))
    /\ issued = WholeRecordWrite
    /\ store[NumKey(last.tabId)] = cache[last.tabId]
    /\ calls = <<>>

C13_Witness ==
  /\ last.op = "navigate"
  /\ last.frameId = 0
  /\ ~supported(last.url)
  /\ last.tabId \notin DOMAIN last.cache
  /\ Len(listeners) = 2
  /\ calls = <<>>

TopFrameSupported == last.op = "navigate" /\ last.frameId = 0 /\ supported(last.url)

\* C14: a top-frame navigation event to a supported url calls every listener
\* registered at that time exactly once, in the order of registration, with
\* {tabId, url, oldUrl}, oldUrl being the url the cache held for the tab before
\* the event or undefined for an untracked tab. A listener is registered once
\* however often onOff(fn, true) added it, keeping its first place, and
\* onOff(fn, false) takes it out of the registered listeners.
C14_EachListenerOnceInOrder ==
  /\ \A i, j \in 1..Len(listeners) : listeners[i] = listeners[j] => i = j
  /\ (last.op = "onOff" /\ last.value = NumV(1)) =>
       listeners = IF last.fn \in Range(last.listeners) THEN last.listeners
                   ELSE Append(last.listeners, last.fn)
  /\ (last.op = "onOff" /\ last.value = NumV(0)) =>
       /\ last.fn \notin Range(listeners)
       /\ listeners = SelectSeq(last.listeners, LAMBDA f : f # last.fn)
  /\ TopFrameSupported =>
       /\ Len(calls) = Len(last.listeners)
       /\ \A i \in 1..Len(calls) :
            /\ calls[i].fn = last.listeners[i]
            /\ calls[i].tabId = last.tabId
            /\ calls[i].url = last.url
            /\ calls[i].oldUrl = UrlBefore

C14_Witness ==
  /\ TopFrameSupported
  /\ Len(calls) = 2
  /\ calls[1].fn = "f2"
  /\ calls[2].fn = "f1"
  /\ calls[1].oldUrl \notin {Undefined, StrV(last.url)}

\* C15: when a listener throws while it is notified, the listeners registered
\* after it are still called for the event, the error does not leave the
\* handler, and the new url of the cache record and the store write stay.
C15_ThrowingListenerIsolated ==
  last.op = "navigate" =>
    \A i \in 1..Len(calls) :
      calls[i].threw =>
        /\ ~last.threw
        /\ \A j \in (i + 1)..Len(last.listeners) :
             j \in DOMAIN calls /\ calls[j].fn = last.listeners[j]
        /\ get(cache, last.tabId, <<"url">>) = StrV(last.url)
        /\ issued = WholeRecordWrite
        /\ store[NumKey(last.tabId)] = cache[last.tabId]

C15_Witness ==
  /\ last.op = "navigate"
  /\ Len(calls) = 2
  /\ calls[1].threw
  /\ ~calls[2].threw
  /\ ~last.threw
  /\ UrlBefore # StrV(last.url)

\* the positions of the store sets issued for tab id by the last handler
SetsFor(id) == {i \in 1..Len(issued) : issued[i].op = "set" /\ issued[i].key = NumKey(id)}

\* C16: where the lifecycle hooks are registered, a tab-replaced event
\* (newId, oldId) removes the cache entry of oldId only and issues the store
\* delete of oldId only: what the cache and the store hold for newId and for
\* every other tab stays as it was and no record appears for newId. A
\* tab-removed event removes that tab's cache entry and store record and
\* nothing else. Both events exist only outside MV3.
C16_HooksEvictOneTab ==
  last.op \in {"onRemoved", "onReplaced"} =>
    /\ ~mv3
    /\ last.tabId \notin DOMAIN cache
    /\ NumKey(last.tabId) \notin DOMAIN store
    /\ issued = <<RemoveOp(NumKey(last.tabId))>>
    /\ OthersKept(last.tabId)
    /\ last.op = "onReplaced" =>
         LET newId == last.value.n
         IN /\ newId \in DOMAIN cache <=> newId \in DOMAIN last.cache
            /\ NumKey(newId) \in DOMAIN store <=> NumKey(newId) \in DOMAIN last.store

C16_Witness ==
  /\ last.op = "onReplaced"
  /\ last.value.n # last.tabId
  /\ last.tabId \in DOMAIN last.cache
  /\ last.value.n \in DOMAIN cache
  /\ NumKey(last.value.n) \in DOMAIN store

\* C17: every tab id that is a key of the cache maps to an object record, never
\* to undefined, null or another primitive; a tab that is not tracked has no
\* key.
C17_RecordsAreObjects ==
  \A t \in DOMAIN cache : IsObj(cache[t])

C17_Witness ==
  /\ last.op = "reconcile"
  /\ \E t \in LiveIds : ~DbHas(dbData, NumKey(t)) /\ cache[t] # Undefined
  /\ \E t \in DOMAIN last.cache : t \notin LiveIds /\ t \in DOMAIN cache

\* C18: the reconciler issues a store set for a supported live tab exactly when
\* the snapshot has no record of it or a record with another url, one set in
\* that case and none otherwise; the record of a tab whose persisted url is the
\* live url is put in the cache as it was persisted.
C18_ReconcileWritesOnlyDirty ==
  last.op = "reconcile" =>
    \A t \in LiveIds :
      /\ t \in DOMAIN cache
      /\ Cardinality(SetsFor(t)) = IF CleanInDb(t) THEN 0 ELSE 1
      /\ CleanInDb(t) => cache[t] = DbGet(dbData, NumKey(t))

C18_Witness ==
  /\ last.op = "reconcile"
  /\ \E t \in LiveIds : ~DbHas(dbData, NumKey(t)) /\ SetsFor(t) # {}
  /\ \E t \in LiveIds : CleanInDb(t) /\ SetsFor(t) = {} /\ t \in DOMAIN cache

\* C19: an update of the url leaves the rest of the record alone. The record
\* the reconciler puts in the cache for a tab the snapshot has a record of, and
\* the record it writes to the store, differ from the persisted record in the
\* url at most; the record of a tracked tab after a top-frame navigation event,
\* and the record written, differ from the record before in the url at most.
C19_OnlyUrlTouched ==
  /\ last.op = "reconcile" =>
       \A t \in {x \in LiveIds : DbHas(dbData, NumKey(x))} :
         LET rest == Without(DbGet(dbData, NumKey(t)), <<"url">>)
         IN /\ Without(cache[t], <<"url">>) = rest
            /\ \A i \in SetsFor(t) : Without(issued[i].val, <<"url">>) = rest
  /\ (last.op = "navigate" /\ last.frameId = 0 /\ last.tabId \in DOMAIN last.cache) =>
       LET rest == Without(last.cache[last.tabId], <<"url">>)
       IN /\ Without(cache[last.tabId], <<"url">>) = rest
          /\ \A i \in SetsFor(last.tabId) : Without(issued[i].val, <<"url">>) = rest

C19_Witness ==
  /\ last.op = "reconcile"
  /\ \E t \in LiveIds :
       /\ DbHas(dbData, NumKey(t))
       /\ ~CleanInDb(t)
       /\ <<"a", "b">> \in DOMAIN cache[t].props
       /\ SetOp(NumKey(t), cache[t]) \in Range(issued)

\* C20: within a top-frame navigation event the cache has the new url and the
\* store set of the record has been issued before the first listener is
\* called: every listener finds get(tabId, 'url') equal to the url of the
\* event, and different from the oldUrl it is given when the url has changed.
C20_UpdatedBeforeListeners ==
  last.op = "navigate" =>
    \A i \in 1..Len(calls) :
      /\ calls[i].seen = StrV(last.url)
      /\ calls[i].written = WholeRecordWrite
      /\ UrlBefore # StrV(last.url) => calls[i].seen # calls[i].oldUrl

C20_Witness ==
  /\ last.op = "navigate"
  /\ Len(calls) = 2
  /\ calls[1].oldUrl \notin {Undefined, StrV(last.url)}
  /\ calls[1].seen = StrV(last.url)
  /\ calls[1].written # <<>>

====
